---- MODULE Spec2Model ----
(***************************************************************************)
(* A model of cubo (ESDS-Leipzig/cubo):                                    *)
(*   - earthengine.create: the patch download through a thread pool, the   *)
(*     collection loop over as_completed and the assembly of the cube      *)
(*     (specification Spec), and its entry up to the projection metadata   *)
(*     (specification SpecHead);                                           *)
(*   - cubo.create with utils._central_pixel_bbox: input validation, the   *)
(*     footprint and the catalogue access (specification SpecCubo);        *)
(*   - utils._ee_fix_coordinates: the snap to the collection geotransform  *)
(*     (specification SpecFix);                                            *)
(*   - utils._compute_distance_to_center and its attachment to the cube    *)
(*     (specification SpecDist).                                           *)
(* Numbers that are floats in the program are exact rationals here, kept   *)
(* as integers in units of 1/Grain.                                        *)
(***************************************************************************)
EXTENDS Integers, Sequences, FiniteSets, TLC

\* Bounds of the model.
MaxScenes == 3
MaxDate == 2
MaxDim == 2
MaxWorkers == 2

VARIABLES
    zip_list,     \* earthengine.create: the (img_id, img_date) pairs, in catalogue order
    failing,      \* the asset ids for which ee.data.getPixels raises for good
    max_workers,  \* size of the thread pool
    bands,        \* the requested bands, a list
    edge_size,    \* the edge of the cube in pixels
    futures,      \* per submitted request: "pending", "running" or "done"
    yielded,      \* the futures as_completed has handed to the loop
    arrays,       \* the patches collected so far, in collection order
    time,         \* their dates, same order
    img_ids,      \* their ids, same order
    printed,      \* the ids whose exception the loop printed
    pc,           \* "point", "metadata", "submit", "collect", "returned" or "raised"
    exc,          \* the exception that left create, "" if none
    cube,         \* <<>> or <<the returned DataArray>>
    lat,          \* cubo.create: None or Some(latitude)
    lon,          \* None or Some(longitude)
    bbox,         \* None or Some(<<minx, miny, maxx, maxy>>)
    units,        \* "px" or "m"
    cedge,        \* edge_size as passed, in units of 1/Grain
    resolution,   \* pixel size in metres, in units of 1/Grain
    gee,          \* whether Google Earth Engine is used
    footprint,    \* <<>> or <<what _central_pixel_bbox returned>>
    net,          \* the network operations done so far, in order
    cpc,          \* "validate", "footprint", "search", "stack", "returned", "raised"
    cexc,         \* the exception that left cubo.create, "" if none
    ccube,        \* <<>> or <<the returned cube>>
    transform,    \* _ee_fix_coordinates: the geotransform, scale_x, ulx, scale_y, uly
    local_coords, \* the input point in the collection's CRS
    fixed,        \* <<>> or <<the "local" coordinates returned>>
    fpc,          \* "fix", "again" or "done"
    da,           \* _compute_distance_to_center: the cube, its x, y, attrs and coords
    distance_to_center, \* <<>> or <<the array returned>>
    dpc           \* "compute", "assign" or "done"

eevars == <<zip_list, failing, max_workers, bands, edge_size, futures, yielded,
            arrays, time, img_ids, printed, pc, exc, cube>>

cubovars == <<lat, lon, bbox, units, cedge, resolution, gee, footprint, net,
              cpc, cexc, ccube>>

fixvars == <<transform, local_coords, fixed, fpc>>

distvars == <<da, distance_to_center, dpc>>

vars == <<eevars, cubovars, fixvars, distvars>>

None == <<>>
Some(v) == <<v>>

\* The variables of an operation that is not the one under study keep these values.
EEIdle ==
    /\ zip_list = <<>> /\ failing = {} /\ max_workers = 1 /\ bands = <<>>
    /\ edge_size = 1 /\ futures = <<>> /\ yielded = {} /\ arrays = <<>>
    /\ time = <<>> /\ img_ids = <<>> /\ printed = {} /\ pc = "idle"
    /\ exc = "" /\ cube = <<>>

CuboIdle ==
    /\ lat = None /\ lon = None /\ bbox = None /\ units = "px" /\ cedge = 1
    /\ resolution = 1 /\ gee = FALSE /\ footprint = <<>> /\ net = <<>>
    /\ cpc = "idle" /\ cexc = "" /\ ccube = <<>>

FixIdle ==
    /\ transform = <<>> /\ local_coords = <<>> /\ fixed = <<>> /\ fpc = "idle"

DistIdle ==
    /\ da = <<>> /\ distance_to_center = <<>> /\ dpc = "idle"

----------------------------------------------------------------------------
(* earthengine.create, from the thread pool on                             *)

Scenes == DOMAIN zip_list

\* A (img_id, img_date) pair of zip_list.
Pair(id, date) == [id |-> id, date |-> date]

\* The lists of n scenes: ids are unique (system:id), dates are arbitrary.
ZipLists(n) == { [i \in 1..n |-> Pair(i, d[i])] : d \in [1..n -> 1..MaxDate] }

\* _ee_get_patch: the stacked bands of one asset, shaped [band, height, width].
EeGetPatch(dimension, asset_id, band) ==
    [asset |-> asset_id, shape |-> <<Len(band), dimension[2], dimension[1]>>]

Running == { i \in Scenes : futures[i] = "running" }

\* future.result() raises when the fetch of the scene failed for good: the
\* exception of ee.data.getPixels, which retry.Retry lets through.
Raises(i) == zip_list[i].id \in failing

\* The exceptions a fetch raises.
FetchErrors == {"EEException"}

CatchesNothing(e) == FALSE

\* except Exception: every exception of a fetch is caught.
Catches(e) == e \in FetchErrors

\* The futures as_completed can yield next: done, and not yet yielded.
AsCompleted == { i \in Scenes : futures[i] = "done" /\ i \notin yielded }

LoopEndsEarly == yielded # {} \/ Scenes = {}

\* The loop over as_completed ends when every submitted future was yielded.
LoopDone == yielded = Scenes

\* numpy.squeeze: every axis of length one is removed.
Squeeze(shape) == SelectSeq(shape, LAMBDA d : d # 1)

\* The shape of np.array(arrays): the patches stacked on a new first axis; the
\* empty tuple gives a one-dimensional array of length 0.
RawShape(arrs) == IF Len(arrs) = 0 THEN <<0>> ELSE <<Len(arrs)>> \o arrs[1].shape

\* A stack that keeps all four axes whatever their lengths.
DataShapeKeepsAxes(arrs) == <<Len(arrs), Len(bands), edge_size, edge_size>>

\* The shape of data: squeezed, and given a new first axis when three axes are left.
DataShape(arrs) ==
    LET s == Squeeze(RawShape(arrs))
    IN  IF Len(s) = 3 THEN <<1>> \o s ELSE s

\* np.arange(start, start + edge * res, res)[0:edge] has edge entries.
RangeLen(edge) == edge

\* xr.DataArray accepts data only with one axis per dimension name and with every
\* coordinate as long as its axis.
DataArrayAccepts(shape, t, b, ny, nx) ==
    /\ Len(shape) = 4
    /\ shape[1] = Len(t)
    /\ shape[2] = Len(b)
    /\ shape[3] = ny
    /\ shape[4] = nx

\* The place of index i in an order already sorted by t: after every entry that
\* is not later than it.
InsertByTime(ord, i, t) ==
    LET p == Cardinality({ j \in 1..Len(ord) : t[ord[j]] <= t[i] })
    IN  SubSeq(ord, 1, p) \o <<i>> \o SubSeq(ord, p + 1, Len(ord))

\* The positions left in their order of collection.
Unsorted(t, n) == [k \in 1..n |-> k]

RECURSIVE SortOrder(_, _)
\* sortby("time"): the positions 1..n in ascending order of t, equal keys in
\* their order of appearance.
SortOrder(t, n) == IF n = 0 THEN <<>> ELSE InsertByTime(SortOrder(t, n - 1), n, t)

\* The attributes with the id list of line 133, every scene of the collection.
CubeAttrsAllIds ==
    [ collection |-> "collection",
      epsg |-> "epsg",
      resolution |-> "resolution",
      edge_size |-> edge_size,
      central_lat |-> "new_lat",
      central_lon |-> "new_lon",
      central_y |-> "n_utm_y + resolution_y / 2",
      central_x |-> "n_utm_x + resolution_x / 2",
      time_coverage_start |-> "start_date",
      time_coverage_end |-> "end_date",
      gee_image_ids |-> [i \in Scenes |-> zip_list[i].id] ]

\* The attributes create stores on the cube.
CubeAttrs ==
    [ collection |-> "collection",
      epsg |-> "epsg",
      resolution |-> "resolution",
      edge_size |-> edge_size,
      central_lat |-> "new_lat",
      central_lon |-> "new_lon",
      central_y |-> "n_utm_y + resolution_y / 2",
      central_x |-> "n_utm_x + resolution_x / 2",
      time_coverage_start |-> "start_date",
      time_coverage_end |-> "end_date",
      gee_image_ids |-> img_ids ]

\* The attributes that hold a number.
IntAttrs == {"edge_size"}

\* array.sortby("time") of the DataArray built from the collected lists.
SortedCube ==
    LET ord == SortOrder(time, Len(time))
    IN  [ time |-> [k \in 1..Len(ord) |-> time[ord[k]]],
          data |-> [k \in 1..Len(ord) |-> arrays[ord[k]]],
          band |-> bands,
          shape |-> DataShape(arrays),
          attrs |-> CubeAttrs ]

EEInit ==
    /\ \E n \in 0..MaxScenes : zip_list \in ZipLists(n)
    /\ failing \in SUBSET Scenes
    /\ max_workers \in 1..MaxWorkers
    /\ \E b \in 1..MaxDim : bands = [k \in 1..b |-> k]
    /\ edge_size \in 1..MaxDim
    /\ futures = <<>>
    /\ yielded = {}
    /\ arrays = <<>>
    /\ time = <<>>
    /\ img_ids = <<>>
    /\ printed = {}
    /\ pc = "submit"
    /\ exc = ""
    /\ cube = <<>>
    /\ CuboIdle
    /\ FixIdle
    /\ DistIdle

\* One future per pair of zip_list is submitted to the executor; the lists the
\* loop fills are emptied.
Submit ==
    /\ UNCHANGED <<cubovars, fixvars, distvars>>
    /\ pc = "submit"
    /\ futures' = [i \in Scenes |-> "pending"]
    /\ pc' = "collect"
    /\ UNCHANGED <<zip_list, failing, max_workers, bands, edge_size, yielded,
                   arrays, time, img_ids, printed, exc, cube>>

\* A free worker takes the oldest pending request from the executor's queue.
WorkerStart(i) ==
    /\ UNCHANGED <<cubovars, fixvars, distvars>>
    /\ pc = "collect"
    /\ futures[i] = "pending"
    /\ \A j \in Scenes : j < i => futures[j] # "pending"
    /\ Cardinality(Running) < max_workers
    /\ futures' = [futures EXCEPT ![i] = "running"]
    /\ UNCHANGED <<zip_list, failing, max_workers, bands, edge_size, yielded,
                   arrays, time, img_ids, printed, pc, exc, cube>>

\* _ee_get_patch returns or raises: the future is done.
WorkerFinish(i) ==
    /\ UNCHANGED <<cubovars, fixvars, distvars>>
    /\ pc = "collect"
    /\ futures[i] = "running"
    /\ futures' = [futures EXCEPT ![i] = "done"]
    /\ UNCHANGED <<zip_list, failing, max_workers, bands, edge_size, yielded,
                   arrays, time, img_ids, printed, pc, exc, cube>>

\* One turn of the loop over as_completed, on a future that is done: its result
\* is appended to the three lists, or its exception is printed.
Collect(i) ==
    /\ UNCHANGED <<cubovars, fixvars, distvars>>
    /\ pc = "collect"
    /\ i \in AsCompleted
    /\ yielded' = yielded \cup {i}
    /\ IF Raises(i)
       THEN \E e \in FetchErrors :
              IF Catches(e)
              THEN /\ printed' = printed \cup {zip_list[i].id}
                   /\ UNCHANGED <<arrays, time, img_ids, pc, exc>>
              ELSE /\ pc' = "raised"
                   /\ exc' = e
                   /\ UNCHANGED <<arrays, time, img_ids, printed>>
       ELSE /\ time' = Append(time, zip_list[i].date)
            /\ img_ids' = Append(img_ids, zip_list[i].id)
            /\ arrays' = Append(arrays,
                   EeGetPatch(<<edge_size, edge_size>>, zip_list[i].id, bands))
            /\ UNCHANGED <<printed, pc, exc>>
    /\ UNCHANGED <<zip_list, failing, max_workers, bands, edge_size, futures, cube>>

\* After the loop: the DataArray is built and returned sorted by time, or its
\* constructor raises.
Assemble ==
    /\ UNCHANGED <<cubovars, fixvars, distvars>>
    /\ pc = "collect"
    /\ LoopDone
    /\ IF DataArrayAccepts(DataShape(arrays), time, bands,
                           RangeLen(edge_size), RangeLen(edge_size))
       THEN /\ cube' = <<SortedCube>>
            /\ pc' = "returned"
            /\ exc' = ""
       ELSE /\ cube' = <<>>
            /\ pc' = "raised"
            /\ exc' = "ValueError"
    /\ UNCHANGED <<zip_list, failing, max_workers, bands, edge_size, futures,
                   yielded, arrays, time, img_ids, printed>>

EENext ==
    \/ Submit
    \/ \E i \in Scenes : WorkerStart(i)
    \/ \E i \in Scenes : WorkerFinish(i)
    \/ \E i \in Scenes : Collect(i)
    \/ Assemble

Spec == EEInit /\ [][EENext]_vars

----------------------------------------------------------------------------
(* earthengine.create, from its entry to the projection metadata           *)

\* The parameters of _ee_get_projection_metadata in order, and those of them
\* that have a default.
ProjectionMetadataParams ==
    <<"collection", "ee_geom", "start_date", "end_date", "bands">>

ProjectionMetadataDefaults == {"bands"}

\* The positional arguments create passes to _ee_get_projection_metadata.
ProjectionMetadataArgs ==
    <<"collection", "ee_point", "start_date", "end_date", "bands", "band_projection">>

\* A call with positional arguments only is accepted when there are no more
\* arguments than parameters and every parameter left without an argument has
\* a default; otherwise the call raises TypeError before the body runs.
Binds(params, defaults, args) ==
    /\ Len(args) <= Len(params)
    /\ \A k \in (Len(args) + 1)..Len(params) : params[k] \in defaults

\* create is entered with the scenes the collection holds for the point and
\* the date range; nothing was fetched yet.
HeadInit ==
    /\ \E n \in 0..MaxScenes : zip_list \in ZipLists(n)
    /\ failing \in SUBSET Scenes
    /\ max_workers \in 1..MaxWorkers
    /\ \E b \in 1..MaxDim : bands = [k \in 1..b |-> k]
    /\ edge_size \in 1..MaxDim
    /\ futures = <<>>
    /\ yielded = {}
    /\ arrays = <<>>
    /\ time = <<>>
    /\ img_ids = <<>>
    /\ printed = {}
    /\ pc = "point"
    /\ exc = ""
    /\ cube = <<>>
    /\ CuboIdle
    /\ FixIdle
    /\ DistIdle

\* ee_point = ee.Geometry.Point(lon, lat)
MakePoint ==
    /\ UNCHANGED <<cubovars, fixvars, distvars>>
    /\ pc = "point"
    /\ pc' = "metadata"
    /\ UNCHANGED <<zip_list, failing, max_workers, bands, edge_size, futures,
                   yielded, arrays, time, img_ids, printed, exc, cube>>

\* The call of _ee_get_projection_metadata: with arguments the function accepts,
\* create goes on (resolution, coordinates, scene list) to the thread pool;
\* otherwise the TypeError of the call leaves create.
CallProjectionMetadata ==
    /\ UNCHANGED <<cubovars, fixvars, distvars>>
    /\ pc = "metadata"
    /\ IF Binds(ProjectionMetadataParams, ProjectionMetadataDefaults,
                ProjectionMetadataArgs)
       THEN pc' = "submit" /\ exc' = ""
       ELSE pc' = "raised" /\ exc' = "TypeError"
    /\ UNCHANGED <<zip_list, failing, max_workers, bands, edge_size, futures,
                   yielded, arrays, time, img_ids, printed, cube>>

HeadNext ==
    \/ MakePoint
    \/ CallProjectionMetadata

SpecHead == HeadInit /\ [][HeadNext]_vars

----------------------------------------------------------------------------
(* Rounding                                                                *)

\* Python's round(num / den) for an exact quotient: the nearest integer, a tie
\* going to the even one.
PyRound(num, den) ==
    LET n == IF den < 0 THEN -num ELSE num
        d == IF den < 0 THEN -den ELSE den
        q == n \div d
        r == n % d
    IN  IF 2 * r < d THEN q
        ELSE IF 2 * r > d THEN q + 1
        ELSE IF q % 2 = 0 THEN q ELSE q + 1

----------------------------------------------------------------------------
(* cubo.create and utils._central_pixel_bbox                               *)

\* Bounds: lengths are integers in units of 1/Grain metre or pixel.
Grain == 2
MaxEdge == 6
MaxRes == 4
MaxCoord == 4
MaxDeg == 1
MaxPx == 2

\* The names utils.py defines.
UtilsNames ==
    {"_central_pixel_bbox", "_compute_distance_to_center", "_ee_get_patch",
     "_ee_get_coordinates", "_ee_fix_coordinates", "_ee_get_projection_metadata",
     "_ee_fix_date", "_ee_utils_get_crs", "_get_crs_web"}

\* from .utils import name succeeds for the names the module defines.
ImportFromUtils(name) == name \in UtilsNames

\* The boxes (minx, miny, maxx, maxy) in degrees.
Boxes ==
    { q \in (0..MaxDeg) \X (0..MaxDeg) \X (0..MaxDeg) \X (0..MaxDeg) :
          q[1] < q[3] /\ q[2] < q[4] }

InvalidOnlyWhenAllMissing == bbox = None /\ lat = None /\ lon = None

\* The condition of the input check.
InvalidInputs == bbox = None /\ (lat = None \/ lon = None)

\* The edge size in pixels handed to _central_pixel_bbox, as <<numerator,
\* denominator>>: as given for "px", divided by the resolution for "m".
EdgePx == IF units = "px" THEN <<cedge, Grain>> ELSE <<cedge, resolution>>

NotRounded(coord, res) == coord

\* round(coord / resolution) * resolution
RoundToGrid(coord, res) == PyRound(coord, res) * res

BufferTruncated(edge, res) == ((edge[1] * res) \div (edge[2] * Grain * 2)) * Grain

\* buffer = round(edge_size * resolution / 2), an integer number of metres.
Buffer(edge, res) == PyRound(edge[1] * res, edge[2] * Grain * 2) * Grain

\* _central_pixel_bbox, given the UTM coordinates the transformer gave the point.
CentralPixelBBox(utm_coords, edge, res) ==
    LET cx == RoundToGrid(utm_coords[1], res)
        cy == RoundToGrid(utm_coords[2], res)
        buffer == Buffer(edge, res)
        E == cx + buffer
        W == cx - buffer
        N == cy + buffer
        S == cy - buffer
    IN  [ E |-> E, W |-> W, N |-> N, S |-> S,
          polygon |-> << <<W, S>>, <<E, S>>, <<E, N>>, <<W, N>>, <<W, S>> >>,
          bbox_latlon |-> "inverse_transformer(polygon)",
          utm_coords |-> utm_coords,
          epsg |-> "epsg" ]

CuboInit ==
    /\ lat \in {None} \cup { Some(v) : v \in 0..MaxDeg }
    /\ lon \in {None} \cup { Some(v) : v \in 0..MaxDeg }
    /\ bbox \in {None} \cup { Some(b) : b \in Boxes }
    /\ units \in {"px", "m"}
    /\ cedge \in Grain..MaxEdge
    /\ resolution \in 1..MaxRes
    /\ gee \in BOOLEAN
    /\ footprint = <<>>
    /\ net = <<>>
    /\ cpc = "validate"
    /\ cexc = ""
    /\ ccube = <<>>
    /\ EEIdle
    /\ FixIdle
    /\ DistIdle

\* The input check.
Validate ==
    /\ cpc = "validate"
    /\ IF InvalidInputs
       THEN cpc' = "raised" /\ cexc' = "ValueError"
       ELSE cpc' = "footprint" /\ cexc' = ""
    /\ UNCHANGED <<lat, lon, bbox, units, cedge, resolution, gee, footprint, net, ccube>>
    /\ UNCHANGED <<eevars, fixvars, distvars>>

\* With a bbox: _bbox_to_utm is imported from utils, which does not define it.
FootprintOfBBox ==
    /\ cpc = "footprint"
    /\ bbox # None
    /\ ~ImportFromUtils("_bbox_to_utm")
    /\ cpc' = "raised"
    /\ cexc' = "ImportError"
    /\ UNCHANGED <<lat, lon, bbox, units, cedge, resolution, gee, footprint, net, ccube>>
    /\ UNCHANGED <<eevars, fixvars, distvars>>

\* Without a bbox: the units are harmonised and _central_pixel_bbox builds the
\* footprint around the UTM coordinates of (lon, lat).
FootprintOfPoint ==
    /\ cpc = "footprint"
    /\ bbox = None
    /\ \E x \in 0..MaxCoord, y \in 0..MaxCoord :
          footprint' = <<CentralPixelBBox(<<x, y>>, EdgePx, resolution)>>
    /\ cpc' = "search"
    /\ UNCHANGED <<lat, lon, bbox, units, cedge, resolution, gee, net, cexc, ccube>>
    /\ UNCHANGED <<eevars, fixvars, distvars>>

\* The cube is opened: through Earth Engine and xee (which may not be
\* installed), or through the STAC catalogue and stackstac. The number of
\* pixels along x is what the opened cube reports.
OpenCube ==
    /\ cpc = "search"
    /\ \E nx \in 1..MaxPx, installed \in BOOLEAN :
          IF gee /\ ~installed
          THEN /\ cpc' = "raised"
               /\ cexc' = "ImportError"
               /\ UNCHANGED <<net, ccube>>
          ELSE /\ net' = IF gee
                         THEN net \o <<"xr.open_dataset", "collection.getInfo">>
                         ELSE net \o <<"Client.open", "search", "item_collection">>
               /\ ccube' = << [ nx |-> nx,
                                coords |-> {"time", "band", "y", "x"},
                                attrs |-> [k \in {} |-> ""],
                                name |-> "" ] >>
               /\ cpc' = "stack"
               /\ UNCHANGED cexc
    /\ UNCHANGED <<lat, lon, bbox, units, cedge, resolution, gee, footprint>>
    /\ UNCHANGED <<eevars, fixvars, distvars>>

\* The attributes cubo.create sets on the cube; the centre of a bbox is the
\* mean of its bounds, kept as <<numerator, denominator>>.
CuboAttrs(nx) ==
    [ collection |-> "collection",
      stac |-> "stac",
      epsg |-> footprint[1].epsg,
      resolution |-> resolution,
      edge_size |-> nx,
      edge_size_m |-> nx * resolution,
      time_coverage_start |-> "start_date",
      time_coverage_end |-> "end_date",
      central_y |-> footprint[1].utm_coords[2],
      central_x |-> footprint[1].utm_coords[1] ]
    @@ ( IF lat # None /\ lon # None
         THEN [central_lat |-> lat[1], central_lon |-> lon[1]]
         ELSE IF bbox # None
         THEN [central_lat |-> <<bbox[1][2] + bbox[1][4], 2>>,
               central_lon |-> <<bbox[1][1] + bbox[1][3], 2>>,
               bbox |-> bbox[1]]
         ELSE [k \in {} |-> ""] )

\* The attributes are set, the distance to the centre is attached when lat and
\* lon were given, the cube is named and returned.
Finish ==
    /\ cpc = "stack"
    /\ ccube' = << [ ccube[1] EXCEPT
                       !.attrs = CuboAttrs(ccube[1].nx),
                       !.coords = IF lat # None /\ lon # None
                                  THEN @ \cup {"cubo:distance_from_center"}
                                  ELSE @,
                       !.name = "collection" ] >>
    /\ cpc' = "returned"
    /\ UNCHANGED <<lat, lon, bbox, units, cedge, resolution, gee, footprint, net, cexc>>
    /\ UNCHANGED <<eevars, fixvars, distvars>>

CuboNext ==
    \/ Validate
    \/ FootprintOfBBox
    \/ FootprintOfPoint
    \/ OpenCube
    \/ Finish

SpecCubo == CuboInit /\ [][CuboNext]_vars

----------------------------------------------------------------------------
(* utils._ee_fix_coordinates                                               *)

MaxOrigin == 1
MaxScale == 2

\* The snap with the scale of the x axis used for both axes.
EeFixCoordinatesOneScale(t, lc) ==
    LET display_x == PyRound(lc[1] - t.ulx, t.scale_x)
        display_y == PyRound(lc[2] - t.uly, t.scale_y)
    IN  [ local |-> <<t.ulx + display_x * t.scale_x, t.uly + display_y * t.scale_x>>,
          geo |-> "transformer_geo(new_x, new_y)" ]

\* _ee_fix_coordinates, given the local coordinates the transformer gave the
\* point: each is moved to the nearest pixel corner of the geotransform.
EeFixCoordinates(t, lc) ==
    LET display_x == PyRound(lc[1] - t.ulx, t.scale_x)
        display_y == PyRound(lc[2] - t.uly, t.scale_y)
        new_x == t.ulx + display_x * t.scale_x
        new_y == t.uly + display_y * t.scale_y
    IN  [ local |-> <<new_x, new_y>>,
          geo |-> "transformer_geo(new_x, new_y)" ]

Scales == (-MaxScale..MaxScale) \ {0}

FixInit ==
    /\ transform \in [ scale_x : Scales, ulx : -MaxOrigin..MaxOrigin,
                       scale_y : Scales, uly : -MaxOrigin..MaxOrigin ]
    /\ local_coords \in (-MaxCoord..MaxCoord) \X (-MaxCoord..MaxCoord)
    /\ fixed = <<>>
    /\ fpc = "fix"
    /\ EEIdle
    /\ CuboIdle
    /\ DistIdle

\* The point is snapped.
FixCoordinates ==
    /\ fpc = "fix"
    /\ fixed' = <<EeFixCoordinates(transform, local_coords).local>>
    /\ fpc' = "again"
    /\ UNCHANGED <<transform, local_coords>>
    /\ UNCHANGED <<eevars, cubovars, distvars>>

\* The snapped point is snapped once more.
FixAgain ==
    /\ fpc = "again"
    /\ local_coords' = fixed[1]
    /\ fixed' = <<EeFixCoordinates(transform, fixed[1]).local>>
    /\ fpc' = "done"
    /\ UNCHANGED transform
    /\ UNCHANGED <<eevars, cubovars, distvars>>

FixNext ==
    \/ FixCoordinates
    \/ FixAgain

SpecFix == FixInit /\ [][FixNext]_vars

----------------------------------------------------------------------------
(* utils._compute_distance_to_center and its use by cubo.create            *)
(* A two-dimensional array is the sequence of its rows; a distance is kept *)
(* as its square, which is exact and orders and equates as the distance.   *)

\* A coordinate axis of n pixels from start in steps of step.
Axis(start, step, n) == [k \in 1..n |-> start + (k - 1) * step]

\* np.meshgrid(xs, ys): two arrays of shape (len(ys), len(xs)), the first
\* repeating xs in every row, the second repeating ys in every column.
MeshGrid(xs, ys) ==
    << [j \in 1..Len(ys) |-> [i \in 1..Len(xs) |-> xs[i]]],
       [j \in 1..Len(ys) |-> [i \in 1..Len(xs) |-> ys[j]]] >>

\* (a ** 0) * c: an array shaped as a, filled with c.
FilledLike(a, c) == [j \in 1..Len(a) |-> [i \in 1..Len(a[j]) |-> c]]

\* np.linalg.norm(u - v, axis=0) for u = [ux, uy] and v = [vx, vy]: per cell, the
\* length of the difference (squared).
NormAxis0(ux, uy, vx, vy) ==
    [j \in 1..Len(ux) |-> [i \in 1..Len(ux[j]) |->
        (ux[j][i] - vx[j][i]) * (ux[j][i] - vx[j][i])
          + (uy[j][i] - vy[j][i]) * (uy[j][i] - vy[j][i])]]

\* ndarray.T of a two-dimensional array.
Transpose(m) == [a \in 1..Len(m[1]) |-> [b \in 1..Len(m) |-> m[b][a]]]

\* ndarray.shape of a two-dimensional array.
Shape(m) == <<Len(m), Len(m[1])>>

\* _compute_distance_to_center
ComputeDistanceToCenter(d) ==
    LET coordinates == MeshGrid(d.x, d.y)
        x == FilledLike(coordinates[1], d.attrs.central_x)
        y == FilledLike(coordinates[2], d.attrs.central_y)
    IN  Transpose(NormAxis0(coordinates[1], coordinates[2], x, y))

\* The cubes handed to the function: x ascending and y descending in steps of
\* the resolution, the centre as recorded in the attributes.
DistInit ==
    /\ \E nx \in 1..MaxPx, ny \in 1..MaxPx, res \in 1..MaxRes,
          x0 \in -MaxOrigin..MaxOrigin, y0 \in -MaxOrigin..MaxOrigin,
          cx \in 0..MaxCoord, cy \in 0..MaxCoord :
          da = [ x |-> Axis(x0, res, nx),
                 y |-> Axis(y0, -res, ny),
                 attrs |-> [central_x |-> cx, central_y |-> cy],
                 coords |-> {"time", "band", "y", "x"},
                 distance |-> <<>> ]
    /\ distance_to_center = <<>>
    /\ dpc = "compute"
    /\ EEIdle
    /\ CuboIdle
    /\ FixIdle

\* The function is called on the cube.
ComputeDistance ==
    /\ dpc = "compute"
    /\ distance_to_center' = <<ComputeDistanceToCenter(da)>>
    /\ dpc' = "assign"
    /\ UNCHANGED da
    /\ UNCHANGED <<eevars, cubovars, fixvars>>

\* assign_coords with the dimensions ["y", "x"]: the array is attached when its
\* shape is (len(y), len(x)); otherwise assign_coords raises, and the exception
\* is passed over.
AssignCoords ==
    /\ dpc = "assign"
    /\ IF Shape(distance_to_center[1]) = <<Len(da.y), Len(da.x)>>
       THEN da' = [da EXCEPT !.coords = @ \cup {"cubo:distance_from_center"},
                             !.distance = distance_to_center]
       ELSE UNCHANGED da
    /\ dpc' = "done"
    /\ UNCHANGED distance_to_center
    /\ UNCHANGED <<eevars, cubovars, fixvars>>

DistNext ==
    \/ ComputeDistance
    \/ AssignCoords

SpecDist == DistInit /\ [][DistNext]_vars

----------------------------------------------------------------------------
(* Claims about earthengine.create, checked under Spec                     *)

Finished == pc \in {"returned", "raised"}

\* The requests whose fetch succeeds, and those whose fetch fails.
Succeeding == { i \in Scenes : ~Raises(i) }
Failing == { i \in Scenes : Raises(i) }

\* The date zip_list gives the scene with this id.
DateOf(id) == zip_list[CHOOSE k \in Scenes : zip_list[k].id = id].date

\* The names of the attributes of the returned cube.
AttrNames ==
    {"collection", "epsg", "resolution", "edge_size", "central_lat", "central_lon",
     "central_y", "central_x", "time_coverage_start", "time_coverage_end",
     "gee_image_ids"}

\* C1: of N requests with K failing, create collects the N-K successful patches
\* and, with at least one success, returns a cube whose time axis has N-K
\* entries, whatever the pool size and the order of completion. (With no success
\* at all the spec itself asks for an error: that case is left to C4.)
C1_CubeHasOneEntryPerSuccess ==
    (Finished /\ Succeeding # {}) =>
        /\ Len(arrays) = Cardinality(Succeeding)
        /\ pc = "returned"
        /\ Len(cube[1].time) = Cardinality(Succeeding)

\* What does hold of the collection loop: when it has ended, the three lists
\* hold one entry per successful request, and a returned cube has as many
\* time entries.
CollectsEverySuccess ==
    /\ Len(arrays) = Cardinality(yielded \cap Succeeding)
    /\ Len(time) = Len(arrays)
    /\ Len(img_ids) = Len(arrays)
    /\ Finished => Len(arrays) = Cardinality(Succeeding)
    /\ pc = "returned" => Len(cube[1].time) = Cardinality(Succeeding)

\* C2: the time axis of the returned cube is ascending, and the patch at each
\* position is the one fetched for a scene with the timestamp at that position,
\* whatever the order of completion.
C2_TimeAscendingAndAligned ==
    pc = "returned" =>
        LET c == cube[1]
        IN  /\ \A i, j \in 1..Len(c.time) : i < j => c.time[i] <= c.time[j]
            /\ Len(c.data) = Len(c.time)
            /\ \A i \in 1..Len(c.time) : DateOf(c.data[i].asset) = c.time[i]
            /\ { c.data[i].asset : i \in 1..Len(c.data) }
                   = { zip_list[k].id : k \in Succeeding }

\* C2's case: a cube is returned although the patches were collected out of
\* time order.
C2_Witness ==
    /\ pc = "returned"
    /\ \E i, j \in 1..Len(time) : i < j /\ time[i] > time[j]

\* C3: a fetch that fails for good is caught per item: no exception of a fetch
\* leaves the collection loop, the loop is never stuck, and when create ends
\* every submitted request has run to completion and was collected.
C3_FailureIsCapturedPerItem ==
    /\ exc \notin FetchErrors
    /\ (pc = "collect" /\ ~LoopDone) =>
          \/ AsCompleted # {}
          \/ Running # {}
          \/ /\ \E i \in Scenes : futures[i] = "pending"
             /\ Cardinality(Running) < max_workers
    /\ Finished =>
          /\ yielded = Scenes
          /\ \A i \in Scenes : futures[i] = "done"
          /\ printed = { zip_list[i].id : i \in Failing }
          /\ { img_ids[k] : k \in 1..Len(img_ids) } = { zip_list[i].id : i \in Succeeding }

\* C3's case: create has ended after a single worker ran a failing request
\* and at least two others, which were collected.
C3_Witness ==
    /\ Finished
    /\ max_workers = 1
    /\ printed # {}
    /\ Len(arrays) >= 2

\* C4 as stated: with no successful fetch, create raises EmptyCubeError.
C4_RaisesEmptyCubeError ==
    (Finished /\ Succeeding = {}) => (pc = "raised" /\ exc = "EmptyCubeError")

\* C4 amended: with no successful fetch (every request failed, or no scene), create
\* raises the ValueError of the DataArray constructor and returns nothing; a
\* returned cube has at least one time entry.
C4_EmptyRaisesValueError ==
    /\ (Finished /\ Succeeding = {}) =>
           (pc = "raised" /\ exc = "ValueError" /\ cube = <<>>)
    /\ pc = "returned" => Len(cube[1].time) >= 1

\* C4's case: requests were submitted, every one failed, create raised.
C4_Witness ==
    /\ pc = "raised"
    /\ Scenes # {}
    /\ Succeeding = {}
    /\ printed # {}

\* C5 as stated: a cube returned after some fetches failed has an attribute
\* holding the number of failed requests.
C5_AttrsCountDropped ==
    (pc = "returned" /\ Failing # {}) =>
        \E k \in IntAttrs : cube[1].attrs[k] = Cardinality(Failing)

\* C5 amended: the returned cube has the eleven attributes of the constructor
\* call, none of them a count of dropped items; gee_image_ids lists exactly the
\* scenes whose fetch succeeded, so the number dropped is the number of scenes
\* less its length, and the failures themselves were only printed.
C5_AttrsListRetrievedIds ==
    pc = "returned" =>
        LET a == cube[1].attrs
        IN  /\ DOMAIN a = AttrNames
            /\ a.edge_size = edge_size
            /\ Len(a.gee_image_ids) = Cardinality(Scenes) - Cardinality(Failing)
            /\ { a.gee_image_ids[k] : k \in 1..Len(a.gee_image_ids) }
                   = { zip_list[i].id : i \in Succeeding }
            /\ Cardinality(printed) = Cardinality(Failing)

\* C5's case: a cube is returned, some fetches failed and some succeeded.
C5_Witness ==
    /\ pc = "returned"
    /\ Failing # {}
    /\ Len(img_ids) >= 1

\* C13: for every number S >= 1 of successful patches, every band list of
\* length B >= 1 and every edge_size >= 1, create returns a cube with the four
\* axes (time, band, y, x) of lengths (S, B, edge_size, edge_size), whose band
\* axis is the requested band list.
C13_CubeHasFourAxes ==
    (Finished /\ Succeeding # {}) =>
        /\ pc = "returned"
        /\ cube[1].shape =
               <<Cardinality(Succeeding), Len(bands), edge_size, edge_size>>
        /\ cube[1].band = bands

\* What does hold of the assembly: a cube is returned exactly when there is a
\* success and neither the band list nor the edge has length one, and then it
\* has the four axes with these lengths and the requested bands.
CubeReturnedIffNoUnitAxis ==
    /\ Finished =>
          (pc = "returned" <=>
              (Succeeding # {} /\ Len(bands) >= 2 /\ edge_size >= 2))
    /\ pc = "returned" =>
          /\ cube[1].shape =
                 <<Cardinality(Succeeding), Len(bands), edge_size, edge_size>>
          /\ cube[1].band = bands

\* The place of the scene with this id in the list of identifiers received
\* from the catalogue.
UpstreamIndex(id) == CHOOSE k \in Scenes : zip_list[k].id = id

\* The place of the scene with this id in the order of collection.
CollectIndex(id) == CHOOSE k \in 1..Len(img_ids) : img_ids[k] = id

\* C14: patches with the same timestamp are in the cube in the order of their
\* scenes in the upstream identifier list, whatever the order in which their
\* fetches completed.
C14_TiesKeepUpstreamOrder ==
    pc = "returned" =>
        LET c == cube[1]
        IN  \A i, j \in 1..Len(c.time) :
                (i < j /\ c.time[i] = c.time[j]) =>
                    UpstreamIndex(c.data[i].asset) < UpstreamIndex(c.data[j].asset)

\* What does hold of ties: patches with the same timestamp are in the cube in
\* the order in which the loop collected them.
TiesKeepCollectionOrder ==
    pc = "returned" =>
        LET c == cube[1]
        IN  \A i, j \in 1..Len(c.time) :
                (i < j /\ c.time[i] = c.time[j]) =>
                    CollectIndex(c.data[i].asset) < CollectIndex(c.data[j].asset)

\* C15: in the returned cube, gee_image_ids is aligned with the time axis:
\* gee_image_ids[i] is the identifier of the scene whose patch is at time
\* index i, whatever the order in which the fetches completed.
C15_ImageIdsAlignedWithTime ==
    pc = "returned" =>
        LET c == cube[1]
        IN  /\ Len(c.attrs.gee_image_ids) = Len(c.time)
            /\ \A i \in 1..Len(c.time) : c.attrs.gee_image_ids[i] = c.data[i].asset

\* What does hold of gee_image_ids: it lists the scenes in the order in which
\* the loop collected them, which is the order of the time axis exactly when
\* that order was already ascending in time.
ImageIdsInCollectionOrder ==
    pc = "returned" =>
        LET c == cube[1]
        IN  /\ c.attrs.gee_image_ids = img_ids
            /\ (\A i, j \in 1..Len(time) : i < j => time[i] <= time[j])
                   => \A i \in 1..Len(c.time) :
                          c.attrs.gee_image_ids[i] = c.data[i].asset

----------------------------------------------------------------------------
(* Claims about cubo.create and _central_pixel_bbox, checked under SpecCubo *)

FootprintBuilt == footprint # <<>>

Width == footprint[1].E - footprint[1].W
Height == footprint[1].N - footprint[1].S

\* round(num / den) with a tie going away from zero, for num >= 0 and den > 0.
RoundHalfAway(num, den) == (2 * num + den) \div (2 * den)

\* edge_size * resolution / 2 falls exactly on a half.
HalfProduct ==
    /\ (EdgePx[1] * resolution) % (EdgePx[2] * Grain) = 0
    /\ (EdgePx[1] * resolution) % (EdgePx[2] * Grain * 2) # 0

\* The four bounds are multiples of the resolution.
BoundsOnGrid ==
    \A b \in {footprint[1].W, footprint[1].S, footprint[1].E, footprint[1].N} :
        b % resolution = 0

\* C6 as stated: the width and the height of the footprint equal
\* round(edge_size) * resolution (with either way of rounding a tie).
C6_WidthIsRoundedEdgeTimesResolution ==
    FootprintBuilt =>
        LET targets == { PyRound(EdgePx[1], EdgePx[2]) * resolution,
                         RoundHalfAway(EdgePx[1], EdgePx[2]) * resolution }
        IN  Width \in targets /\ Height \in targets

\* C6 amended: the width and the height of the footprint are equal, both twice
\* round(edge_size * resolution / 2) with a tie rounded to the even integer; this
\* is edge_size * resolution when edge_size is an integer and
\* edge_size * resolution an even integer.
C6_WidthIsTwiceRoundedHalfExtent ==
    FootprintBuilt =>
        /\ Width = Height
        /\ Width = 2 * Grain * PyRound(EdgePx[1] * resolution, EdgePx[2] * Grain * 2)
        /\ ( /\ EdgePx[1] % EdgePx[2] = 0
             /\ (EdgePx[1] * resolution) % (EdgePx[2] * Grain * 2) = 0 )
           => Width = (EdgePx[1] \div EdgePx[2]) * resolution

\* C6's case: a footprint was built for an edge_size * resolution / 2 that falls
\* on a half, and its width is not round(edge_size) * resolution.
C6_Witness ==
    /\ FootprintBuilt
    /\ HalfProduct
    /\ Width # PyRound(EdgePx[1], EdgePx[2]) * resolution

\* C7 as stated: the four bounds of the footprint are multiples of resolution.
C7_BoundsAreMultiplesOfResolution == FootprintBuilt => BoundsOnGrid

\* C7 amended: the centre of the footprint is a multiple of resolution, and the
\* four bounds are multiples of resolution exactly when the half extent
\* round(edge_size * resolution / 2) is one; it is one for an even integer
\* edge_size with an integer resolution.
C7_BoundsOnGridIffBufferIs ==
    FootprintBuilt =>
        /\ (footprint[1].E + footprint[1].W) % 2 = 0
        /\ ((footprint[1].E + footprint[1].W) \div 2) % resolution = 0
        /\ ((footprint[1].N + footprint[1].S) \div 2) % resolution = 0
        /\ BoundsOnGrid <=> ((Width \div 2) % resolution = 0)
        /\ (EdgePx[1] % (2 * EdgePx[2]) = 0 /\ resolution % Grain = 0) => BoundsOnGrid

\* C7's case: a footprint was built around a point that had to be moved onto
\* the grid, and its bounds are not on the grid.
C7_Witness ==
    /\ FootprintBuilt
    /\ footprint[1].utm_coords[1] % resolution # 0
    /\ ~BoundsOnGrid

\* C8: with a bbox, cubo.create produces a footprint (which is then to contain
\* the projected box).
C8_BBoxFootprintProduced ==
    (bbox # None /\ cpc \notin {"validate", "footprint"}) =>
        (cpc # "raised" /\ footprint # <<>>)

\* C9: without a bbox and with lat or lon missing, cubo.create raises the
\* ValueError of the input check, before any network operation, footprint or cube.
C9_InvalidInputRaisesBeforeNetwork ==
    /\ (bbox = None /\ (lat = None \/ lon = None) /\ cpc # "validate") =>
           /\ cpc = "raised"
           /\ cexc = "ValueError"
           /\ net = <<>>
           /\ footprint = <<>>
           /\ ccube = <<>>
    /\ cexc = "ValueError" => net = <<>>

\* C9's case: only lat is missing, and create has raised.
C9_Witness ==
    /\ cpc = "raised"
    /\ cexc = "ValueError"
    /\ bbox = None
    /\ lat = None
    /\ lon # None

\* The centre of the box, the mean of its bounds as <<numerator, denominator>>.
BBoxCenter == [ lat |-> <<bbox[1][2] + bbox[1][4], 2>>,
                lon |-> <<bbox[1][1] + bbox[1][3], 2>> ]

\* C12: with a bbox, lat, lon and edge_size are ignored. create is a function of
\* its arguments and of what the catalogue holds, so two calls that differ only
\* in lat, lon or edge_size return the same exactly when every call with a bbox
\* returns what the call without lat and lon returns: a cube on the footprint of
\* the box, with the centre of the box and the box in its attributes, and with
\* the four coordinates of the stack, no distance from the centre among them.
C12_BBoxIgnoresPointAndEdge ==
    (bbox # None /\ cpc \in {"returned", "raised"}) =>
        /\ cpc = "returned"
        /\ footprint # <<>>
        /\ ccube[1].coords = {"time", "band", "y", "x"}
        /\ "cubo:distance_from_center" \notin ccube[1].coords
        /\ ccube[1].attrs.central_lat = BBoxCenter.lat
        /\ ccube[1].attrs.central_lon = BBoxCenter.lon
        /\ ccube[1].attrs.bbox = bbox[1]

----------------------------------------------------------------------------
(* Claims about _ee_fix_coordinates, checked under SpecFix                 *)

Abs(n) == IF n < 0 THEN -n ELSE n

\* The point lies on the grid of the geotransform: origin + k * scale on both axes.
OnGrid(lc) ==
    /\ (lc[1] - transform.ulx) % Abs(transform.scale_x) = 0
    /\ (lc[2] - transform.uly) % Abs(transform.scale_y) = 0

\* C10: snapping a point that already lies on the grid of the geotransform
\* (origin + k * scale, scale of either sign) returns it unchanged.
C10_SnapIsIdempotent ==
    (fpc \in {"again", "done"} /\ OnGrid(local_coords)) => fixed[1] = local_coords

\* C10's case: a point on the grid, away from the origin, was snapped with a
\* negative scale_y larger than one unit.
C10_Witness ==
    /\ fpc = "again"
    /\ OnGrid(local_coords)
    /\ transform.scale_y < -1
    /\ transform.scale_x > 1
    /\ local_coords[1] # transform.ulx
    /\ local_coords[2] # transform.uly

----------------------------------------------------------------------------
(* Claims about _compute_distance_to_center, checked under SpecDist        *)

\* The (squared) distance between the pixel (x_i, y_j) of the cube and the
\* centre recorded in its attributes.
DistanceOfPixel(i, j) ==
    (da.x[i] - da.attrs.central_x) * (da.x[i] - da.attrs.central_x)
      + (da.y[j] - da.attrs.central_y) * (da.y[j] - da.attrs.central_y)

\* C11: the distance field returned by _compute_distance_to_center is laid out
\* y first: it has one row per y and one column per x, and the value at [j, i]
\* is the distance between (x_i, y_j) and (central_x, central_y), for square and
\* non-square grids alike.
C11_DistanceIsYFirst ==
    dpc # "compute" =>
        LET f == distance_to_center[1]
        IN  /\ Shape(f) = <<Len(da.y), Len(da.x)>>
            /\ \A j \in 1..Len(da.y), i \in 1..Len(da.x) :
                   f[j][i] = DistanceOfPixel(i, j)

\* What does hold of the returned field: it is laid out x first, the value at
\* [i, j] being the distance of (x_i, y_j); it is attached to the cube exactly
\* when the grid is square.
DistanceIsXFirst ==
    /\ dpc # "compute" =>
          LET f == distance_to_center[1]
          IN  /\ Shape(f) = <<Len(da.x), Len(da.y)>>
              /\ \A i \in 1..Len(da.x), j \in 1..Len(da.y) :
                     f[i][j] = DistanceOfPixel(i, j)
    /\ dpc = "done" =>
          ("cubo:distance_from_center" \in da.coords <=> Len(da.x) = Len(da.y))

\* A square grid on which the field was attached although it differs from the
\* y-first field at some pixel.
SquareGridTransposed ==
    /\ dpc = "done"
    /\ da.distance # <<>>
    /\ \E j \in 1..Len(da.y), i \in 1..Len(da.x) :
           da.distance[1][j][i] # DistanceOfPixel(i, j)

----------------------------------------------------------------------------
(* Claims about the entry of earthengine.create, checked under SpecHead    *)

\* C16: with at least one matching scene and a reliable network, create gets
\* past the projection metadata without raising (the call passes arguments the
\* function accepts) and submits one patch fetch per matching scene.
C16_MetadataStepCompletes ==
    (Scenes # {} /\ failing = {} /\ pc \notin {"point", "metadata"}) =>
        /\ pc # "raised"
        /\ exc = ""
        /\ pc = "submit" \/ Len(futures) = Len(zip_list)

\* What does hold of the entry: the call is made with one argument more than
\* the function has parameters, and create ends there with TypeError, nothing
\* submitted, whatever the scenes and the other arguments.
CallAlwaysRaisesTypeError ==
    /\ Len(ProjectionMetadataArgs) = Len(ProjectionMetadataParams) + 1
    /\ pc \notin {"point", "metadata"} =>
          (pc = "raised" /\ exc = "TypeError" /\ futures = <<>> /\ cube = <<>>)

====
